---- MODULE Spec2Model ----
(***************************************************************************)
(* State-machine model of src/app.py: a Flask backend that keeps one       *)
(* pickled session record per session id in redis and memoises the         *)
(* answers of three providers (Strava, Last.fm, Spotify) in that record.   *)
(*                                                                         *)
(* A request is handled by one slot of `req`.  Every action is one step of *)
(* a handler: the code between two accesses to redis, with the provider    *)
(* calls made on the way.  What a provider answers is chosen by the        *)
(* environment with \E.                                                    *)
(***************************************************************************)
EXTENDS Integers, Sequences, FiniteSets, TLC

VARIABLES store,   \* redis: session id -> session record (a Python dict)
          now,     \* time.time(), in whole seconds
          req,     \* slot -> the request handled in that slot, with its locals
          fetched  \* activity ids whose detail Strava has already delivered
                   \* to the current session (history of the provider calls)

vars == <<store, now, req, fetched>>

-----------------------------------------------------------------------------
(* Bounds of the model. *)

MaxTime == 1900          \* the clock stops here
MaxPageRequests == 4     \* rounds of an activity-list fetch kept in full

TimeSteps == {1800, 1900}       \* how far one Tick moves the clock
SessionIds == {"s1"}            \* values secrets.token_hex(16) can yield
ActivityIds == {"a1"}
Usernames == {"lf1"}
HistorySizes == {0, 3, 550, 600} \* activities Strava may hold
ExpiresAt == {-1, 0, 3600}      \* expires_at that Strava may grant
Lifetimes == {3600}             \* expires_in that Spotify may grant
Slots == {1, 2}

-----------------------------------------------------------------------------
(* Python values. *)

None == "None"

EmptyDict == [k \in {} |-> None]

\* d[k] = v on a dict
Put(d, k, v) == [x \in (DOMAIN d) \cup {k} |-> IF x = k THEN v ELSE d[x]]

Has(d, k) == k \in DOMAIN d

\* bool(d.get(k)) for a field that holds a string
Truthy(d, k) == Has(d, k) /\ d[k] # None /\ d[k] # ""

\* bool(d.get(k)) for a field that holds a dict
TruthyDict(d, k) == Has(d, k) /\ DOMAIN d[k] # {}

\* bool(d.get(k)) for a field that holds a list
TruthyList(d, k) == Has(d, k) /\ Len(d[k]) > 0

\* the dynamically built keys f'{activity_id}_data' ...
DataKey(a) == a \o "_data"
StreamsKey(a) == a \o "_streams"
MusicKey(a) == a \o "_music_data"
SpotifyKey(a) == a \o "_spotify_data"

-----------------------------------------------------------------------------
(* redis and get_session *)

\* get_session(session_id): {} without an id or without a stored record
get_session(session_id) ==
    IF session_id = None THEN EmptyDict
    ELSE IF session_id \in DOMAIN store THEN store[session_id]
    ELSE EmptyDict

\* a store that merges what it is given into the record it holds
redis_set_merged(session_id, user_session) ==
    [k \in (DOMAIN store) \cup {session_id} |->
        IF k # session_id THEN store[k]
        ELSE IF session_id \notin DOMAIN store THEN user_session
        ELSE [x \in (DOMAIN store[k]) \cup (DOMAIN user_session) |->
                IF x \in DOMAIN user_session THEN user_session[x]
                ELSE store[k][x]]]

\* redis_instance.set(session_id, pickle.dumps(user_session))
redis_set(session_id, user_session) ==
    [k \in (DOMAIN store) \cup {session_id} |->
        IF k = session_id THEN user_session ELSE store[k]]

\* redis_instance.delete(session_id)
redis_delete(session_id) ==
    [k \in (DOMAIN store) \ {session_id} |-> store[k]]

-----------------------------------------------------------------------------
(* The Strava token endpoint (https://www.strava.com/oauth/token). *)

Drop(d, k) == [x \in (DOMAIN d) \ {k} |-> d[x]]

Athlete == [id |-> "u1"]

\* a grant; Strava issues another token with every other expiry
GrantBody(e) ==
    [access_token |-> "at" \o ToString(e),
     refresh_token |-> "rt" \o ToString(e),
     expires_at |-> e]

ErrorBody == [message |-> "Bad Request", errors |-> <<"invalid">>]

\* one answer of a provider: no answer at all (requests raises), or a body
Answers(bodies) ==
    {[exc |-> FALSE, body |-> b] : b \in bodies}
        \cup {[exc |-> TRUE, body |-> EmptyDict]}

\* what the endpoint may answer to a refresh_token grant: a full grant, a
\* grant with one field missing, an error object, or no answer at all
RefreshResponses ==
    LET full == {GrantBody(e) : e \in ExpiresAt}
        part == {Drop(GrantBody(3600), k) : k \in DOMAIN GrantBody(3600)}
    IN  Answers(full \cup part \cup {ErrorBody})

\* what it may answer to an authorization_code grant
LoginResponses ==
    LET full == {Put(GrantBody(e), "athlete", Athlete) : e \in ExpiresAt}
        one  == Put(GrantBody(3600), "athlete", Athlete)
        part == {Drop(one, k) : k \in DOMAIN one}
    IN  Answers(full \cup part \cup {ErrorBody})

-----------------------------------------------------------------------------
(* Requests. *)

NoResp == [code |-> 0, body |-> EmptyDict]

Json(body) == [code |-> 200, body |-> body]

\* abort(401)
Abort401 == [code |-> 401, body |-> EmptyDict]

\* an exception no handler catches: Flask answers 500
Crash500 == [code |-> 500, body |-> EmptyDict]

IdleReq ==
    [kind |-> "idle", pc |-> "idle",
     sid |-> None,               \* request.headers.get("session-id")
     sid_u |-> None,             \* request.headers.get("session_id")
     activity_id |-> None, start_date |-> None, end_date |-> None,
     username |-> None,
     user_session |-> EmptyDict, \* the handler's user_session
     cs |-> EmptyDict,           \* user_session of check_access_token_status
     page_number |-> 0,
     request_payload |-> [per_page |-> 0, page |-> 0],
     all_strava_activities |-> <<>>,
     start_time_unix |-> 0, end_time_unix |-> 0,
     music_list |-> <<>>,
     spotify_data_list |-> <<>>,
     index |-> 0,                \* position of `track` in music_list
     step |-> 0,                 \* which catalog request of the track is next
     music_id |-> None, artist_data |-> EmptyDict, music_data |-> EmptyDict,
     top_tracks_data |-> <<>>, recommended_tracks_data |-> <<>>,
     resp |-> NoResp,
     \* history of the request, read by the properties only
     calls |-> <<>>,             \* provider calls made, in order
     writes |-> 0,               \* redis writes made
     chk |-> [done |-> FALSE, at |-> 0, expiry |-> 0],
     history |-> 0,              \* activities Strava holds during the fetch
     entry |-> EmptyDict]        \* the stored record when the request came in

\* one provider call, as the properties see it
Call(op, page, token) == [op |-> op, page |-> page, token |-> token]

\* GET /activities/{id}; `again` tells that Strava has delivered this detail
\* to the session before
DetailCall(activity_id, token) ==
    [op |-> "detail", page |-> 0, token |-> token,
     again |-> activity_id \in fetched]

\* a request to Spotify: the clock and the app credential of the record when
\* refresh_spotify_access_token looked at it
SpotifyCall(op, step, token, user_session, expires_in) ==
    LET had == Has(user_session, "spotify_access_token")
    IN  [op |-> op, page |-> step, token |-> token, at |-> now,
         had_token |-> had,
         had_value |-> IF had THEN user_session["spotify_access_token"].token
                       ELSE None,
         had_expiry |-> IF had
                        THEN user_session["spotify_access_token"].expiry_time
                        ELSE 0,
         expires_in |-> expires_in]

Init ==
    /\ store = EmptyDict
    /\ now = 0
    /\ req = [r \in Slots |-> IdleReq]
    /\ fetched = {}

\* the request in slot r becomes q
Set(r, q) == req' = [req EXCEPT ![r] = q]

\* a request arrives in the free slot r
Arrive(r, kind, sid) ==
    [IdleReq EXCEPT !.kind = kind, !.sid = sid, !.entry = get_session(sid)]

\* the handler returns resp
Return(q, resp) == [q EXCEPT !.pc = "done", !.resp = resp]

\* the response leaves; the slot is free again
Reply(r) ==
    /\ req[r].pc = "done"
    /\ Set(r, IdleReq)
    /\ UNCHANGED <<store, now, fetched>>

Tick ==
    /\ \E d \in TimeSteps : now + d <= MaxTime /\ now' = now + d
    /\ UNCHANGED <<store, req, fetched>>

-----------------------------------------------------------------------------
(* /callback *)

auth_callback(r, sid) ==
    /\ req[r].pc = "idle"
    /\ LET user_session == get_session(sid)
           q == [Arrive(r, "callback", sid) EXCEPT !.user_session = user_session]
       IN  IF Truthy(user_session, "user_id")
           THEN Set(r, Return(q, Json([error |-> FALSE,
                                      user_data |-> user_session["athlete_info"]])))
           ELSE /\ SessionIds \ DOMAIN store # {}
                /\ Set(r, [q EXCEPT !.pc = "exchange"])
    /\ UNCHANGED <<store, now, fetched>>

\* a login that saves the session as soon as it knows the athlete
SaveAfterLogin_early(session_id, complete, session, response_data) ==
    IF Has(response_data, "athlete")
    THEN redis_set(session_id, [athlete_info |-> response_data["athlete"],
                                user_id |-> response_data["athlete"].id])
    ELSE store

\* the session is saved once the whole answer is read (line 70); the except of
\* line 72 comes first when a field is missing
SaveAfterLogin(session_id, complete, session, response_data) ==
    IF complete THEN redis_set(session_id, session) ELSE store

\* lines 34-77: the code exchange and the creation of the session
auth_callback_exchange(r) ==
    /\ req[r].pc = "exchange"
    /\ \E session_id \in SessionIds \ DOMAIN store, rsp \in LoginResponses :
        LET q == [req[r] EXCEPT !.calls =
                    Append(@, [op |-> "login", page |-> 0, token |-> None,
                               rsp |-> rsp])]
            response_data == rsp.body
            complete == /\ ~rsp.exc
                        /\ {"athlete", "access_token", "refresh_token",
                            "expires_at"} \subseteq DOMAIN response_data
            session == [athlete_info |-> response_data["athlete"],
                        user_id |-> response_data["athlete"].id,
                        access_token |-> response_data["access_token"],
                        refresh_token |-> response_data["refresh_token"],
                        access_token_expirytime |-> response_data["expires_at"]]
        IN  /\ store' = SaveAfterLogin(session_id, complete, session, response_data)
            /\ IF complete
               THEN /\ fetched' = {}
                    /\ Set(r, Return([q EXCEPT !.writes = @ + 1],
                           Json([error |-> FALSE, session_id |-> session_id,
                                 user_data |-> response_data["athlete"]])))
               ELSE /\ Set(r, Return(q, Json([error |-> TRUE])))
                    /\ UNCHANGED fetched
    /\ UNCHANGED now

-----------------------------------------------------------------------------
(* /authentication_status *)

check_authentication(r, sid) ==
    /\ req[r].pc = "idle"
    /\ LET user_session == get_session(sid)
           q == [Arrive(r, "authentication_status", sid)
                    EXCEPT !.user_session = user_session]
       IN  IF ~Truthy(user_session, "user_id")
           THEN Set(r, Return(q, Json([result |-> FALSE])))
           ELSE Set(r, Return(q, Json([result |-> TRUE,
                    last_fm_status |-> Truthy(user_session, "last_fm_username")])))
    /\ UNCHANGED <<store, now, fetched>>

-----------------------------------------------------------------------------
(* check_access_token_status, called by the handlers that query Strava *)

\* user_session.get(k) for a string field: None when absent
Get(d, k) == IF Has(d, k) THEN d[k] ELSE None

\* a check that lets one more second pass
TokenExpired_late(expiry_time) == now > expiry_time + 1

\* line 497: the stored credential counts as expired
TokenExpired(expiry_time) == now > expiry_time

\* lines 489-497 and 523-524: load the record and compare the clock
check_access_token_status(r) ==
    /\ req[r].pc = "check"
    /\ LET user_session == get_session(req[r].sid)
           q == [req[r] EXCEPT !.cs = user_session]
       IN  IF Truthy(user_session, "user_id")
           THEN LET expiry_time == user_session["access_token_expirytime"]
                    q2 == [q EXCEPT !.chk = [done |-> TRUE, at |-> now,
                                            expiry |-> expiry_time]]
                IN  IF TokenExpired(expiry_time)
                    THEN Set(r, [q2 EXCEPT !.pc = "refresh"])
                    ELSE Set(r, [q2 EXCEPT !.pc = "reload"])
           \* "Valid user session not found." is caught by the caller
           ELSE Set(r, Return(q, Json([error_status |-> TRUE])))
    /\ UNCHANGED <<store, now, fetched>>

\* a refresh that builds the record anew from the grant
Refreshed_grant_only(user_session, response_data) ==
    [access_token |-> response_data["access_token"],
     refresh_token |-> response_data["refresh_token"],
     access_token_expirytime |-> response_data["expires_at"]]

\* the record check_access_token_status saves after a grant (lines 513-515)
Refreshed(user_session, response_data) ==
    Put(Put(Put(user_session,
        "access_token", response_data["access_token"]),
        "refresh_token", response_data["refresh_token"]),
        "access_token_expirytime", response_data["expires_at"])

\* a refresh that saves the record before it has read the whole answer
SaveAfterRefresh_early(session_id, complete, user_session, response_data) ==
    IF Has(response_data, "access_token")
    THEN redis_set(session_id, Put(user_session, "access_token",
                                   response_data["access_token"]))
    ELSE store

\* a failed refresh saves nothing (the except of line 520 comes first)
SaveAfterRefresh(session_id, complete, user_session, response_data) ==
    IF complete THEN redis_set(session_id, Refreshed(user_session, response_data))
    ELSE store

\* lines 498-521: the refresh_token grant
check_access_token_status_refresh(r) ==
    /\ req[r].pc = "refresh"
    /\ \E rsp \in RefreshResponses :
        LET q == [req[r] EXCEPT !.calls =
                    Append(@, [op |-> "refresh", page |-> 0,
                               token |-> Get(req[r].cs, "refresh_token"),
                               rsp |-> rsp])]
            response_data == rsp.body
            complete == /\ ~rsp.exc
                        /\ {"access_token", "refresh_token", "expires_at"}
                              \subseteq DOMAIN response_data
        IN  /\ store' = SaveAfterRefresh(q.sid, complete, q.cs, response_data)
            /\ IF complete
               THEN Set(r, [q EXCEPT !.cs = Refreshed(q.cs, response_data),
                                     !.writes = @ + 1, !.pc = "reload"])
               \* "Access token refresh failed." is caught by the caller
               ELSE Set(r, Return(q, Json([error_status |-> TRUE])))
    /\ UNCHANGED <<now, fetched>>

-----------------------------------------------------------------------------
(* /get_user_activity_data *)

PER_PAGE == 200

Dates == {None, "2023-01-01"}

Activity(i) == [id |-> i, type |-> IF i % 2 = 1 THEN "Run" ELSE "Ride"]

\* the activities Strava holds between `after` and `before`, of h in all
StravaActivities(h, after, before) ==
    LET lo == IF after = None THEN 1 ELSE 2
        hi == IF before = None THEN h ELSE h - 1
    IN  [i \in 1..(IF hi >= lo THEN hi - lo + 1 ELSE 0) |-> Activity(lo + i - 1)]

\* the answer of GET /athlete/activities to a request payload
StravaPage(h, payload) ==
    LET items == StravaActivities(h, payload.after, payload.before)
        first == (payload.page - 1) * payload.per_page + 1
        last  == IF payload.page * payload.per_page < Len(items)
                 THEN payload.page * payload.per_page ELSE Len(items)
    IN  SubSeq(items, first, last)

\* line 158
RunsOf(activities) ==
    SelectSeq(activities, LAMBDA activity : activity.type = "Run")

\* lines 106-130: arrival, session check, cache check
get_user_activity_data(r, sid, start_date, end_date) ==
    /\ req[r].pc = "idle"
    /\ LET user_session == get_session(sid)
           q == [Arrive(r, "activities", sid) EXCEPT
                    !.user_session = user_session,
                    !.start_date = start_date, !.end_date = end_date]
       IN  IF Truthy(user_session, "user_id")
           THEN IF /\ TruthyList(user_session, "run_activities")
                   /\ start_date = None /\ end_date = None
                THEN Set(r, Return(q, Json([error_status |-> FALSE,
                        athlete_running_data |-> user_session["run_activities"]])))
                ELSE Set(r, [q EXCEPT !.pc = "check"])
           ELSE Set(r, Return(q, Abort401))
    /\ UNCHANGED <<store, now, fetched>>

\* the payload of the next page request, given the one built at line 136 and
\* the page_number of line 151
NextPayload(request_payload, page_number) == request_payload

\* lines 127-141: reload the record, build the request payload
get_user_activity_data_reload(r, h) ==
    /\ req[r].pc = "reload" /\ req[r].kind = "activities"
    /\  Set(r, [req[r] EXCEPT
            !.user_session = get_session(req[r].sid),
            !.all_strava_activities = <<>>,
            !.page_number = 1,
            !.request_payload = [per_page |-> PER_PAGE, page |-> 1,
                                 after |-> req[r].start_date,
                                 before |-> req[r].end_date],
            !.history = h,
            !.pc = "page"])
    /\ UNCHANGED <<store, now, fetched>>

PageCalls(q) == Len(SelectSeq(q.calls, LAMBDA c : c.op = "activities"))

\* lines 144-168: one round of the loop and, after the last one, the filter,
\* the save and the response.  The loop itself has no bound: after
\* MaxPageRequests rounds the model goes on with the rounds but no longer
\* extends what it keeps of them (the calls, the accumulated list), and it
\* keeps page_number up to parity.
get_user_activity_data_page(r) ==
    /\ req[r].pc = "page"
    /\ \E outcome \in {"ok", "errors", "exc"} :
        LET recorded == PageCalls(req[r]) < MaxPageRequests
            q == IF recorded
                 THEN [req[r] EXCEPT !.calls = Append(@,
                        Call("activities", req[r].request_payload.page,
                             Get(req[r].user_session, "access_token")))]
                 ELSE req[r]
            retrieved_data == StravaPage(q.history, q.request_payload)
            all == q.all_strava_activities \o retrieved_data
            page_number == IF q.page_number > MaxPageRequests
                           THEN q.page_number - 1 ELSE q.page_number + 1
            run_activities == RunsOf(all)
            filtered == q.start_date # None \/ q.end_date # None
            user_session == Put(q.user_session, "run_activities", run_activities)
        IN  IF outcome = "ok"
            THEN IF Len(retrieved_data) # 200
                 THEN /\ Set(r, Return(
                            [q EXCEPT !.all_strava_activities = all,
                                      !.page_number = page_number,
                                      !.user_session =
                                          IF filtered THEN @ ELSE user_session,
                                      !.writes = IF filtered THEN @ ELSE @ + 1],
                            Json([error_status |-> FALSE,
                                  athlete_running_data |-> run_activities])))
                      /\ store' = IF filtered THEN store
                                  ELSE redis_set(q.sid, user_session)
                 ELSE /\ Set(r, [q EXCEPT
                            !.all_strava_activities =
                                IF recorded THEN all ELSE @,
                            !.page_number = page_number,
                            !.request_payload =
                                NextPayload(q.request_payload, page_number)])
                      /\ UNCHANGED store
            \* no answer (requests raises), or an error object whose keys are
            \* taken for activities at line 158: nothing catches either
            ELSE /\ Set(r, Return(q, Crash500))
                 /\ UNCHANGED store
    /\ UNCHANGED <<now, fetched>>

-----------------------------------------------------------------------------
(* /get_user_profile_data *)

get_user_profile_data(r, sid) ==
    /\ req[r].pc = "idle"
    /\ LET user_session == get_session(sid)
           q == [Arrive(r, "profile", sid) EXCEPT !.user_session = user_session]
       IN  IF Truthy(user_session, "user_id")
           THEN Set(r, [q EXCEPT !.pc = "check"])
           ELSE Set(r, Return(q, Abort401))
    /\ UNCHANGED <<store, now, fetched>>

\* lines 185-196
get_user_profile_data_fetch(r) ==
    /\ req[r].pc = "reload" /\ req[r].kind = "profile"
    /\ \E outcome \in {"ok", "errors", "exc"} :
        LET user_session == get_session(req[r].sid)
            q == [req[r] EXCEPT
                    !.user_session = user_session,
                    !.calls = Append(@, Call("athlete", 0,
                                    Get(user_session, "access_token")))]
        IN  IF outcome = "exc" THEN Set(r, Return(q, Crash500))
            ELSE Set(r, Return(q, Json([error_status |-> FALSE,
                    athlete_data |-> IF outcome = "ok" THEN Athlete
                                     ELSE ErrorBody])))
    /\ UNCHANGED <<store, now, fetched>>

-----------------------------------------------------------------------------
(* /get_activity_strava_data *)

\* dp.parse(...).timestamp() on the start dates Strava delivers
IsoTimes == [iso \in {"1970-01-01T01:00:00Z"} |-> 3600]

DetailOf(activity_id) ==
    [id |-> activity_id, type |-> "Run",
     start_date |-> "1970-01-01T01:00:00Z", elapsed_time |-> 600]

StreamsOf(activity_id) ==
    [latlng |-> <<<<51, 0>>>>, velocity_smooth |-> <<3>>]

\* what GET /activities/{id} may answer
DetailResponses(activity_id) == Answers({DetailOf(activity_id), ErrorBody})

\* what GET /activities/{id}/streams may answer
StreamsResponses(activity_id) == Answers({StreamsOf(activity_id)})

\* lines 205-215
get_activity_strava_data(r, sid, activity_id) ==
    /\ req[r].pc = "idle"
    /\ LET user_session == get_session(sid)
           q == [Arrive(r, "detail", sid) EXCEPT
                    !.user_session = user_session, !.activity_id = activity_id]
       IN  IF Truthy(user_session, "user_id")
           THEN Set(r, [q EXCEPT !.pc = "check"])
           ELSE Set(r, Return(q, Abort401))
    /\ UNCHANGED <<store, now, fetched>>

\* line 212
get_activity_strava_data_reload(r) ==
    /\ req[r].pc = "reload" /\ req[r].kind = "detail"
    /\ Set(r, [req[r] EXCEPT !.user_session = get_session(req[r].sid),
                             !.pc = "fetch"])
    /\ UNCHANGED <<store, now, fetched>>

\* lines 217-260: detail and streams, each from the record or from Strava,
\* then the save
get_activity_strava_data_fetch(r) ==
    /\ req[r].pc = "fetch"
    /\ LET q == req[r]
           activity_id == q.activity_id
           token == Get(q.user_session, "access_token")
           cached_d == TruthyDict(q.user_session, DataKey(activity_id))
           cached_s == TruthyDict(q.user_session, StreamsKey(activity_id))
       IN  \E d \in IF cached_d THEN {[exc |-> FALSE, body |-> EmptyDict]}
                    ELSE DetailResponses(activity_id),
              st \in IF cached_s THEN {[exc |-> FALSE, body |-> EmptyDict]}
                     ELSE StreamsResponses(activity_id) :
            LET calls1 == IF cached_d THEN q.calls
                          ELSE Append(q.calls, DetailCall(activity_id, token))
                activity_response_data ==
                    IF cached_d THEN q.user_session[DataKey(activity_id)]
                    ELSE d.body
                session1 == IF cached_d THEN q.user_session
                            ELSE Put(q.user_session, DataKey(activity_id),
                                     activity_response_data)
                calls2 == IF cached_s THEN calls1
                          ELSE Append(calls1, Call("streams", 0, token))
                activity_stream_response_data ==
                    IF cached_s THEN q.user_session[StreamsKey(activity_id)]
                    ELSE st.body
                session2 == IF cached_s THEN session1
                            ELSE Put(session1, StreamsKey(activity_id),
                                     activity_stream_response_data)
            IN  IF d.exc
                THEN \* the detail request raised: caught at line 256
                     /\ st = CHOOSE x \in StreamsResponses(activity_id) : TRUE
                     /\ Set(r, Return([q EXCEPT !.calls = calls1],
                                      Json([error_status |-> TRUE])))
                     /\ UNCHANGED <<store, fetched>>
                ELSE /\ fetched' = IF ~cached_d /\ ~Has(d.body, "errors")
                                   THEN fetched \cup {activity_id} ELSE fetched
                     /\ IF st.exc
                        THEN \* the streams request raised: nothing is saved
                             /\ Set(r, Return([q EXCEPT !.calls = calls2,
                                                  !.user_session = session1],
                                        Json([error_status |-> TRUE])))
                             /\ UNCHANGED store
                        ELSE /\ store' = redis_set(q.sid, session2)
                             /\ Set(r, Return(
                                  [q EXCEPT !.calls = calls2,
                                            !.user_session = session2,
                                            !.writes = @ + 1],
                                  IF Has(activity_response_data, "errors")
                                  THEN Json([error_status |-> TRUE])
                                  ELSE Json([error_status |-> FALSE,
                                        activity_data |-> activity_response_data,
                                        activity_streams |->
                                            activity_stream_response_data])))
    /\ UNCHANGED now

-----------------------------------------------------------------------------
(* Last.fm (http://ws.audioscrobbler.com/2.0/) *)

\* JSON values that are a list in one answer and an object in another
JList(items) == [list |-> items]
JObject(item) == [object |-> item]

\* int(s) on the decimal strings Last.fm delivers
Numerals == {0, 60000, 200000, 300000, 3200, 3400, 3700}
IntOf(s) == CHOOSE n \in Numerals : ToString(n) = s

\* one play of user.getrecenttracks
Scrobble(name, uts) ==
    [name |-> name, artist |-> [text |-> "Artist " \o name],
     album |-> [text |-> "Album " \o name], date |-> [uts |-> ToString(uts)]]

\* the track that is playing right now carries "@attr" and no date
NowPlaying(name) ==
    Put([name |-> name, artist |-> [text |-> "Artist " \o name],
         album |-> [text |-> "Album " \o name]],
        "@attr", [nowplaying |-> "true"])

\* the plays Last.fm knows; the activity of DetailOf starts at 3600
TE == Scrobble("TE", 3200)     \* played at start - 400, lasts 60 s
T1 == Scrobble("T1", 3400)     \* played at start - 200, lasts 300 s
TB == Scrobble("TB", 3400)     \* played at start - 200, lasts 200 s
T2 == Scrobble("T2", 3700)     \* played during the activity
TN == Scrobble("TN", 3700)     \* Last.fm knows no duration of it
TA == Scrobble("TA", 3700)     \* Spotify has no picture of its artist
TP == NowPlaying("TP")

\* track.getInfo: the "track" object of a track name
TrackInfo(name) ==
    IF name = "TE" THEN [name |-> name, duration |-> "60000"]
    ELSE IF name = "T1" THEN [name |-> name, duration |-> "300000"]
    ELSE IF name \in {"T2", "TA", "TB"}
         THEN [name |-> name, duration |-> "200000"]
    ELSE [name |-> name]

LastFmError == [error |-> 6, message |-> "Invalid parameters"]

\* what user.getrecenttracks may answer about `user`, given the lists of
\* plays and the single plays to choose from
RecentTracksResponses(user, lists, singles) ==
    IF user \in Usernames
    THEN Answers({[recenttracks |-> [track |-> JList(l)]] : l \in lists}
            \cup {[recenttracks |-> [track |-> JObject(t)]] : t \in singles}
            \cup {LastFmError})
    ELSE Answers({LastFmError})

-----------------------------------------------------------------------------
(* /get_activity_music_data *)

BufferSeconds == 300

\* a filter that also drops the play that ends when the activity starts
EndedBefore_inclusive(music, start_time_unix) ==
    (IntOf(music["duration"]) \div 1000) + IntOf(music["date"].uts)
        <= start_time_unix

\* line 344: the play ended before the activity started.  The sum of the
\* code is a float, and x / 1000 + u < s iff x div 1000 + u < s for integers.
EndedBefore(music, start_time_unix) ==
    (IntOf(music["duration"]) \div 1000) + IntOf(music["date"].uts)
        < start_time_unix

\* lines 290-299 and 357: the times of the activity, then the cached plays
AfterDetail(q, activity_response_data) ==
    IF ~Has(activity_response_data, "start_date")
    THEN Return(q, Crash500)     \* dp.parse(None) raises outside any try
    ELSE LET start_time_unix == IsoTimes[activity_response_data["start_date"]]
             end_time_unix ==
                 start_time_unix + activity_response_data["elapsed_time"]
             q2 == [q EXCEPT !.start_time_unix = start_time_unix,
                             !.end_time_unix = end_time_unix]
             key == MusicKey(q.activity_id)
         IN  IF TruthyList(q.user_session, key)
             THEN Return([q2 EXCEPT !.music_list = q.user_session[key]],
                         Json([music_data |-> q.user_session[key],
                               activity_times |->
                                  [startTime |-> start_time_unix,
                                   endTime |-> end_time_unix]]))
             ELSE [q2 EXCEPT !.pc = "lastfm"]

\* lines 269-285
get_activity_music_data(r, sid, activity_id) ==
    /\ req[r].pc = "idle"
    /\ LET user_session == get_session(sid)
           q == [Arrive(r, "music", sid) EXCEPT
                    !.user_session = user_session, !.activity_id = activity_id]
       IN  IF Truthy(user_session, "user_id")
           THEN IF TruthyDict(user_session, DataKey(activity_id))
                THEN Set(r, AfterDetail(q, user_session[DataKey(activity_id)]))
                ELSE Set(r, [q EXCEPT !.pc = "check"])
           ELSE Set(r, Return(q, Abort401))
    /\ UNCHANGED <<store, now, fetched>>

\* what the handler does with the detail it has fetched at line 287
KeepDetail(user_session, activity_id, activity_response_data) == user_session

\* lines 282-299: reload the record, fetch the detail
get_activity_music_data_detail(r, d) ==
    /\ req[r].pc = "reload" /\ req[r].kind = "music"
    /\ LET user_session == get_session(req[r].sid)
           q == [req[r] EXCEPT
                    !.user_session = user_session,
                    !.calls = Append(@, DetailCall(req[r].activity_id,
                                    Get(user_session, "access_token")))]
       IN  IF d.exc
           THEN Set(r, Return(q, Crash500)) /\ UNCHANGED fetched
           ELSE /\ Set(r, AfterDetail(
                      [q EXCEPT !.user_session =
                          KeepDetail(@, q.activity_id, d.body)], d.body))
                /\ fetched' = IF Has(d.body, "errors") THEN fetched
                              ELSE fetched \cup {q.activity_id}
    /\ UNCHANGED <<store, now>>

\* lines 320-323
Played(track) ==
    LET music_list == IF Has(track, "list") THEN track.list
                      ELSE <<track.object>>
    IN  SelectSeq(music_list, LAMBDA music : ~Has(music, "@attr"))

\* lines 339-340
WithInfo(track, info) ==
    Put(Put(track, "duration", Get(info, "duration")),
        "music_extra_info", info)

\* lines 301-357: the plays of the window, their durations, the filter, the
\* save.  fail_at is the position of the track.getInfo request that fails
\* (0: none does).
get_activity_music_data_lastfm(r, rsp) ==
    /\ req[r].pc = "lastfm"
    /\ LET q == req[r]
           user == Get(q.user_session, "last_fm_username")
           calls1 == Append(q.calls,
                        [op |-> "recenttracks", page |-> 0, token |-> user,
                         from |-> q.start_time_unix - BufferSeconds,
                         to |-> q.end_time_unix, rsp |-> rsp])
           failed(calls) == Return([q EXCEPT !.calls = calls],
                                   Json([error_status |-> TRUE]))
       IN  IF rsp.exc \/ ~Has(rsp.body, "recenttracks")
           THEN Set(r, failed(calls1)) /\ UNCHANGED store
           ELSE \E fail_at \in 0..Len(Played(rsp.body.recenttracks.track)) :
                LET played == Played(rsp.body.recenttracks.track)
                    asked == IF fail_at = 0 THEN Len(played) ELSE fail_at
                    calls2 == calls1 \o
                        [i \in 1..asked |->
                            [op |-> "getInfo", page |-> i,
                             token |-> played[i].name, ok |-> i # fail_at]]
                    music_list ==
                        [i \in 1..Len(played) |->
                            WithInfo(played[i], TrackInfo(played[i].name))]
                    kept == SelectSeq(music_list, LAMBDA music :
                                ~EndedBefore(music, q.start_time_unix))
                    user_session ==
                        Put(q.user_session, MusicKey(q.activity_id), kept)
                IN  /\ IF \/ fail_at > 0
                          \/ \E i \in 1..Len(music_list) :
                                music_list[i]["duration"] = None
                       THEN \* a request raised, or int(None) did: line 352
                            Set(r, failed(calls2)) /\ UNCHANGED store
                       ELSE /\ store' = redis_set(q.sid, user_session)
                            /\ Set(r, Return(
                                [q EXCEPT !.calls = calls2,
                                          !.music_list = kept,
                                          !.user_session = user_session,
                                          !.writes = @ + 1],
                                Json([music_data |-> kept,
                                      activity_times |->
                                        [startTime |-> q.start_time_unix,
                                         endTime |-> q.end_time_unix]])))
    /\ UNCHANGED <<now, fetched>>

-----------------------------------------------------------------------------
(* /retrieve_lastfm *)

\* what user.getinfo may answer
UserInfoResponses(username) ==
    Answers({[user |-> [name |-> username]], LastFmError})

\* lines 592-594
retrieve_lastfm_user(r, sid, username) ==
    /\ req[r].pc = "idle"
    /\ Set(r, [Arrive(r, "link", sid) EXCEPT
                  !.user_session = get_session(sid),
                  !.username = username, !.pc = "getinfo"])
    /\ UNCHANGED <<store, now, fetched>>

\* lines 596-622
retrieve_lastfm_user_getinfo(r, rsp) ==
    /\ req[r].pc = "getinfo"
    /\ LET q == [req[r] EXCEPT !.calls =
                    Append(@, Call("getinfo", 0, req[r].username))]
           user_session == Put(q.user_session, "last_fm_username", q.username)
       IN  IF rsp.exc \/ Has(rsp.body, "error")
              \/ q.sid = None   \* redis refuses the key None
           THEN /\ Set(r, Return(q, Json([error |-> TRUE])))
                /\ UNCHANGED store
           ELSE /\ store' = redis_set(q.sid, user_session)
                /\ Set(r, Return([q EXCEPT !.user_session = user_session,
                                           !.writes = @ + 1],
                                 Json([error |-> FALSE])))
    /\ UNCHANGED <<now, fetched>>

-----------------------------------------------------------------------------
(* /logout *)

\* lines 584-587; the id is read from the header "session_id"
logout_user(r, sid, sid_u) ==
    /\ req[r].pc = "idle"
    /\ LET q == [Arrive(r, "logout", sid) EXCEPT !.sid_u = sid_u]
           session_id == sid_u
       IN  IF session_id = None
           THEN \* redis refuses the key None: nothing catches it
                /\ Set(r, Return(q, Crash500))
                /\ UNCHANGED <<store, fetched>>
           ELSE /\ store' = redis_delete(session_id)
                /\ fetched' = {}
                /\ Set(r, Return(q, Json([logout_status |-> TRUE])))
    /\ UNCHANGED now

-----------------------------------------------------------------------------
(* Spotify (https://accounts.spotify.com/api/token, https://api.spotify.com) *)

\* what the token endpoint may answer to a client_credentials grant
SpotifyGrants ==
    Answers({[access_token |-> "sp" \o ToString(now), expires_in |-> l] :
                l \in Lifetimes})

\* line 542: the stored app credential can still be used
SpotifyTokenValid(user_session) ==
    /\ TruthyDict(user_session, "spotify_access_token")
    /\ now < user_session["spotify_access_token"].expiry_time

\* an expiry at the end of the declared lifetime
SpotifyExpiry_whole(expires_in) == now + expires_in

\* line 556; the lifetimes of Lifetimes are even, so that / 2 is exact
SpotifyExpiry(expires_in) == now + (expires_in \div 2)

\* lines 556-557: the record after a grant
WithSpotifyToken(user_session, grant) ==
    Put(user_session, "spotify_access_token",
        [token |-> grant["access_token"],
         expiry_time |-> SpotifyExpiry(grant["expires_in"])])

\* the catalog: what Spotify knows about the plays of Last.fm
CatalogNames == {"T1", "T2", "TA", "TB"}
TrackQuery(name) == ("Album " \o name) \o " " \o ("Artist " \o name) \o " " \o name
ArtistQuery(name) == "Artist " \o name
Image(url) == <<[url |-> url]>>

CatalogArtist(name) ==
    [id |-> "artist_" \o name, name |-> "Artist " \o name,
     images |-> IF name = "TA" THEN <<>> ELSE Image("img_artist_" \o name),
     genres |-> <<"rock">>]

CatalogTrack(name) == [id |-> "track_" \o name, name |-> name,
                       preview_url |-> "preview_" \o name]

CatalogTopTracks(name) ==
    <<[name |-> name, preview_url |-> "preview_" \o name,
       album |-> [images |-> Image("img_" \o name)]],
      [name |-> "Top of " \o name, preview_url |-> "preview_top",
       album |-> [images |-> <<>>]]>>

Recommendation(title, artist, images) ==
    [name |-> title, preview_url |-> "preview_" \o title,
     album |-> [artists |-> <<[name |-> artist]>>, images |-> images]]

\* the answer to a recommendations request with limit 15: for T2 fifteen
\* candidates of which the 2nd, 7th and 15th are by the seed artist, for the
\* other plays three candidates
CatalogRecommendations(name) ==
    IF name = "T2"
    THEN [i \in 1..15 |->
            Recommendation("R" \o ToString(i),
                IF i \in {2, 7, 15} THEN "Artist " \o name ELSE "Other",
                IF i % 2 = 0 THEN <<>> ELSE Image("img_R" \o ToString(i)))]
    ELSE <<Recommendation("R1", "Artist " \o name, Image("img_R1")),
           Recommendation("R2", "Other", Image("img_R2")),
           Recommendation("R3", "Other", <<>>)>>

\* the body of the k-th catalog request of a play (lines 399-431)
CatalogAnswer(step, track, music_id, artist_id) ==
    LET name == track["name"]
        known == name \in CatalogNames
    IN  CASE step = 1 ->
               [tracks |-> [items |->
                   IF TrackQuery(name) \in {TrackQuery(n) : n \in CatalogNames}
                   THEN <<CatalogTrack(name)>> ELSE <<>>]]
          [] step = 2 ->
               [artists |-> [items |->
                   IF ArtistQuery(name) \in {ArtistQuery(n) : n \in CatalogNames}
                   THEN <<CatalogArtist(name)>> ELSE <<>>]]
          [] step = 3 -> CatalogTrack(name)
          [] step = 4 -> [tracks |-> CatalogTopTracks(name)]
          [] step = 5 -> [tracks |-> CatalogRecommendations(name)]

-----------------------------------------------------------------------------
(* /get_music_artist_data *)

RecommendationLimit == 10

\* lines 415-418 and 438-441
ImageOf(track) ==
    IF Len(track["album"].images) > 0 THEN track["album"].images[1].url
    ELSE None

\* lines 410-423
TopTracksList(top_tracks_data, music_data, artist_data) ==
    LET kept == SelectSeq(top_tracks_data,
                    LAMBDA top_track : top_track["name"] # music_data["name"])
    IN  [i \in 1..Len(kept) |->
            [image |-> ImageOf(kept[i]),
             preview_url |-> kept[i]["preview_url"],
             track_name |-> kept[i]["name"],
             artist |-> artist_data["name"]]]

\* a list that is cut to the limit before the seed artist is filtered out
RecommendedTracksList_cut_first(recommended_tracks_data, artist_data) ==
    LET cut == IF Len(recommended_tracks_data) > RecommendationLimit
               THEN SubSeq(recommended_tracks_data, 1, RecommendationLimit)
               ELSE recommended_tracks_data
        kept == SelectSeq(cut, LAMBDA recommended_track :
                    recommended_track["album"].artists[1].name
                        # artist_data["name"])
    IN  [i \in 1..Len(kept) |->
            [image |-> ImageOf(kept[i]),
             preview_url |-> kept[i]["preview_url"],
             track_name |-> kept[i]["name"],
             artist |-> kept[i]["album"].artists[1].name]]

\* lines 434-451
RecommendedTracksList(recommended_tracks_data, artist_data) ==
    LET kept == SelectSeq(recommended_tracks_data,
                    LAMBDA recommended_track :
                        recommended_track["album"].artists[1].name
                            # artist_data["name"])
        recommended_tracks_list ==
            [i \in 1..Len(kept) |->
                [image |-> ImageOf(kept[i]),
                 preview_url |-> kept[i]["preview_url"],
                 track_name |-> kept[i]["name"],
                 artist |-> kept[i]["album"].artists[1].name]]
    IN  IF Len(recommended_tracks_list) > RecommendationLimit
        THEN SubSeq(recommended_tracks_list, 1, RecommendationLimit)
        ELSE recommended_tracks_list

\* lines 455-467; artist_data.get('images')[0] is outside the try of the
\* other image lookups
SpotifyRetrievedData(q) ==
    [current_track |->
        [name |-> q.music_data["name"],
         artist |-> [name |-> q.artist_data["name"],
                     image |-> q.artist_data["images"][1].url,
                     top_tracks |-> TopTracksList(q.top_tracks_data,
                                        q.music_data, q.artist_data)],
         preview |-> q.music_data["preview_url"],
         genres |-> q.artist_data["genres"]],
     recommended_tracks |->
        RecommendedTracksList(q.recommended_tracks_data, q.artist_data)]

\* lines 367-387
get_music_artist_data(r, sid, activity_id) ==
    /\ req[r].pc = "idle"
    /\ LET user_session == get_session(sid)
           q == [Arrive(r, "artist", sid) EXCEPT
                    !.user_session = user_session, !.activity_id = activity_id]
       IN  IF Truthy(user_session, "user_id")
           THEN IF TruthyList(user_session, SpotifyKey(activity_id))
                THEN Set(r, Return(
                        [q EXCEPT !.spotify_data_list =
                            user_session[SpotifyKey(activity_id)]],
                        Json(JList(user_session[SpotifyKey(activity_id)]))))
                ELSE IF ~Has(user_session, MusicKey(activity_id))
                THEN \* iterating over None raises: caught at line 475
                     Set(r, Return(q, Json([error_status |-> TRUE])))
                ELSE IF user_session[MusicKey(activity_id)] = <<>>
                THEN Set(r, Return(q, Json(JList(<<>>))))
                ELSE Set(r, [q EXCEPT
                        !.music_list = user_session[MusicKey(activity_id)],
                        !.index = 1, !.step = 1, !.pc = "spotify"])
           ELSE Set(r, Return(q, Abort401))
    /\ UNCHANGED <<store, now, fetched>>

\* retrieve_data_from_spotify (lines 529-535) with refresh_spotify_access_token
\* (lines 538-562), as called at lines 399-431 for the play at `index`
retrieve_data_from_spotify(r) ==
    /\ req[r].pc = "spotify"
    /\ LET q == req[r]
           valid == SpotifyTokenValid(q.user_session)
           failed(qq) == Return(qq, Json([error_status |-> TRUE]))
       IN  \E grant \in IF valid THEN {[exc |-> FALSE, body |-> EmptyDict]}
                        ELSE SpotifyGrants,
              ok \in BOOLEAN :
            LET calls1 == IF valid THEN q.calls
                          ELSE Append(q.calls, SpotifyCall("spotify_token", 0,
                                  None, q.user_session,
                                  IF grant.exc THEN 0
                                  ELSE grant.body["expires_in"]))
                user_session == IF valid THEN q.user_session
                                ELSE WithSpotifyToken(q.user_session, grant.body)
                access_token == user_session["spotify_access_token"].token
                calls2 == Append(calls1, SpotifyCall("spotify", q.step,
                                  access_token, q.user_session, 0))
                q1 == [q EXCEPT !.calls = calls2,
                                !.user_session = user_session,
                                !.writes = IF valid THEN @ ELSE @ + 1]
                body == CatalogAnswer(q.step, q.music_list[q.index], q.music_id,
                            Get(q.artist_data, "id"))
            IN  IF grant.exc
                THEN /\ ok
                     /\ Set(r, failed([q EXCEPT !.calls = calls1]))
                     /\ UNCHANGED store
                ELSE /\ store' = IF valid THEN store
                                 ELSE redis_set(q.sid, user_session)
                     /\ IF ~ok
                        THEN Set(r, failed(q1))
                        ELSE CASE q.step = 1 ->
                                   IF body.tracks.items = <<>>
                                   THEN Set(r, failed(q1))
                                   ELSE Set(r, [q1 EXCEPT !.step = 2,
                                        !.music_id = body.tracks.items[1].id])
                               [] q.step = 2 ->
                                   IF body.artists.items = <<>>
                                   THEN Set(r, failed(q1))
                                   ELSE Set(r, [q1 EXCEPT !.step = 3,
                                        !.artist_data = body.artists.items[1]])
                               [] q.step = 3 ->
                                   Set(r, [q1 EXCEPT !.step = 4,
                                                     !.music_data = body])
                               [] q.step = 4 ->
                                   Set(r, [q1 EXCEPT !.step = 5,
                                        !.top_tracks_data = body.tracks])
                               [] q.step = 5 ->
                                   Set(r, [q1 EXCEPT !.pc = "append",
                                        !.recommended_tracks_data = body.tracks])
    /\ UNCHANGED <<now, fetched>>

\* a loop that saves the record once, after the last play
SaveAfterTrack_batched(session_id, user_session, last) ==
    IF last THEN redis_set(session_id, user_session) ELSE store

\* lines 472-473 are inside the loop: the record is saved after every play
SaveAfterTrack(session_id, user_session, last) ==
    redis_set(session_id, user_session)

\* lines 455-480: assemble the record of the play, append and save it, go on
\* with the next play
get_music_artist_data_append(r) ==
    /\ req[r].pc = "append"
    /\ LET q == req[r]
           spotify_data_list ==
               Append(q.spotify_data_list, SpotifyRetrievedData(q))
           user_session == Put(q.user_session, SpotifyKey(q.activity_id),
                               spotify_data_list)
           q1 == [q EXCEPT !.spotify_data_list = spotify_data_list,
                           !.user_session = user_session,
                           !.writes = @ + 1]
       IN  IF q.artist_data["images"] = <<>>
           THEN \* IndexError at line 460: caught at line 475
                /\ Set(r, Return(q, Json([error_status |-> TRUE])))
                /\ UNCHANGED store
           ELSE /\ store' = SaveAfterTrack(q.sid, user_session,
                                            q.index = Len(q.music_list))
                /\ IF q.index = Len(q.music_list)
                   THEN Set(r, Return(q1, Json(JList(spotify_data_list))))
                   ELSE Set(r, [q1 EXCEPT !.index = @ + 1, !.step = 1,
                                          !.pc = "spotify"])
    /\ UNCHANGED <<now, fetched>>

-----------------------------------------------------------------------------
(* The requests a client may send, and the specifications. *)

HeaderIds == SessionIds \cup {None}

Login(r) ==
    \/ \E sid \in HeaderIds : auth_callback(r, sid)
    \/ auth_callback_exchange(r)

Status(r) == \E sid \in HeaderIds : check_authentication(r, sid)

Credential(r) ==
    \/ check_access_token_status(r)
    \/ check_access_token_status_refresh(r)

\* the activity list, with Strava holding one of `histories` activities
ActivityList(r, histories) ==
    \/ \E sid \in HeaderIds, start_date \in Dates, end_date \in Dates :
            get_user_activity_data(r, sid, start_date, end_date)
    \/ \E h \in histories : get_user_activity_data_reload(r, h)
    \/ get_user_activity_data_page(r)

Profile(r) ==
    \/ \E sid \in HeaderIds : get_user_profile_data(r, sid)
    \/ get_user_profile_data_fetch(r)

ActivityDetail(r) ==
    \/ \E sid \in HeaderIds, activity_id \in ActivityIds :
            get_activity_strava_data(r, sid, activity_id)
    \/ get_activity_strava_data_reload(r)
    \/ get_activity_strava_data_fetch(r)

\* the music of an activity, with Last.fm answering one of `lists` or one of
\* `singles`
ActivityMusic(r, lists, singles) ==
    \/ \E sid \in HeaderIds, activity_id \in ActivityIds :
            get_activity_music_data(r, sid, activity_id)
    \/ \E d \in DetailResponses(req[r].activity_id) :
            get_activity_music_data_detail(r, d)
    \/ \E rsp \in RecentTracksResponses(
                    Get(req[r].user_session, "last_fm_username"),
                    lists, singles) :
            get_activity_music_data_lastfm(r, rsp)

MusicArtist(r) ==
    \/ \E sid \in HeaderIds, activity_id \in ActivityIds :
            get_music_artist_data(r, sid, activity_id)
    \/ retrieve_data_from_spotify(r)
    \/ get_music_artist_data_append(r)

LinkLastFm(r) ==
    \/ \E sid \in HeaderIds, username \in Usernames :
            retrieve_lastfm_user(r, sid, username)
    \/ \E rsp \in UserInfoResponses(req[r].username) :
            retrieve_lastfm_user_getinfo(r, rsp)

Logout(r) == \E sid \in HeaderIds, sid_u \in HeaderIds : logout_user(r, sid, sid_u)

\* The whole program, one request at a time.
Next ==
    \/ Tick
    \/ \E r \in {1} :
        \/ Reply(r)
        \/ Login(r)
        \/ Status(r)
        \/ Credential(r)
        \/ ActivityList(r, {3})
        \/ Profile(r)
        \/ ActivityDetail(r)
        \/ ActivityMusic(r, {<<>>, <<T1, T2>>}, {})
        \/ MusicArtist(r)
        \/ LinkLastFm(r)
        \/ Logout(r)

Spec == Init /\ [][Next]_vars

\* what Last.fm may know of the window of the activity
MusicLists == {<<>>, <<TE, TB, T1, T2>>, <<TP, T1, TA, T2>>, <<T2, TN>>}
MusicSingles == {T1, TP}

\* Login, the link to Last.fm, the music of an activity and its
\* cross-reference, over every answer of Last.fm.
MusicNext ==
    \/ Tick
    \/ \E r \in {1} :
        \/ Reply(r)
        \/ Login(r)
        \/ Credential(r)
        \/ LinkLastFm(r)
        \/ ActivityMusic(r, MusicLists, MusicSingles)
        \/ MusicArtist(r)

MusicSpec == Init /\ [][MusicNext]_vars

\* Two requests at a time: while one worker handles logins and requests for
\* the detail of an activity, another one handles requests that link a
\* Last.fm account; the steps of the two handlers interleave.  The clock
\* stands still: a credential granted with an expiry before it is expired.
ConcurrentNext ==
    \/ \E r \in {1} :
        \/ Reply(r)
        \/ Login(r)
        \/ Credential(r)
        \/ ActivityDetail(r)
    \/ \E r \in {2} :
        \/ Reply(r)
        \/ LinkLastFm(r)

ConcurrentSpec == Init /\ [][ConcurrentNext]_vars

\* Two requests for one activity at a time: one worker handles logins, links
\* and requests for the detail of the activity, while the other one handles
\* one request for its music.  The clock stands still.
RaceNext ==
    \/ \E r \in {1} :
        \/ Reply(r)
        \/ Login(r)
        \/ Credential(r)
        \/ LinkLastFm(r)
        \/ ActivityDetail(r)
    \/ \E r \in {2} :
        \/ Credential(r)
        \/ ActivityMusic(r, {<<T1>>}, {})

RaceSpec == Init /\ [][RaceNext]_vars

\* A logout while another request is handled: one worker handles logins and
\* requests for the detail of an activity, the other one logouts.  The clock
\* stands still.
LogoutNext ==
    \/ \E r \in {1} :
        \/ Reply(r)
        \/ Login(r)
        \/ Credential(r)
        \/ ActivityDetail(r)
    \/ \E r \in {2} :
        \/ Reply(r)
        \/ Logout(r)

LogoutSpec == Init /\ [][LogoutNext]_vars

\* Login and the activity list, over every size of history.
PagingNext ==
    \/ Tick
    \/ \E r \in {1} :
        \/ Reply(r)
        \/ Login(r)
        \/ Credential(r)
        \/ ActivityList(r, HistorySizes)

PagingSpec == Init /\ [][PagingNext]_vars

\* The server goes on with a request it has accepted.
Proceeds(r) ==
    \/ auth_callback_exchange(r)
    \/ Credential(r)
    \/ \E h \in HistorySizes : get_user_activity_data_reload(r, h)
    \/ get_user_activity_data_page(r)

FairPagingSpec == PagingSpec /\ WF_vars(Proceeds(1))

-----------------------------------------------------------------------------
(* Properties. *)

\* the calls of request q to one operation of a provider, in order
CallsOf(q, op) == SelectSeq(q.calls, LAMBDA c : c.op = op)

\* the operations of Strava that need the user credential
StravaData == {"activities", "athlete", "detail", "streams"}

\* C1: in an activity-list fetch the k-th page request asks for page k with
\* page size 200, the fetch stops after the first page with fewer than 200
\* items, and the result is the concatenation of the pages: a history of n
\* activities takes n div 200 + 1 requests and yields all n activities.
C1_Pagination ==
    \A r \in Slots :
        LET q == req[r]
            pages == CallsOf(q, "activities")
            items == StravaActivities(q.history, q.start_date, q.end_date)
        IN  q.kind = "activities" =>
              /\ \A k \in 1..Len(pages) : pages[k].page = k
              /\ q.pc = "page" => q.request_payload.per_page = 200
              /\ (q.pc = "done" /\ q.resp.code = 200 /\ Len(pages) > 0) =>
                    /\ Len(pages) = (Len(items) \div 200) + 1
                    /\ q.all_strava_activities = items

\* C2: the pagination loop ends: a request that has entered the loop returns
\* a response.
C2_Terminates ==
    \A r \in Slots : (req[r].pc = "page") ~> (req[r].pc = "done")

\* C3: a request that has called Strava for data has run the credential
\* check before; if the stored expiry was in the past at the check, the
\* request has made exactly one refresh call, before every data call, and
\* the data calls carry the access token of that refresh; if the expiry was
\* in the future, the request has made no refresh call.
C3_CheckBeforeProviderCall ==
    \A r \in Slots :
        LET q == req[r]
        IN  (\E i \in 1..Len(q.calls) : q.calls[i].op \in StravaData) =>
              /\ q.chk.done
              /\ q.chk.expiry < q.chk.at =>
                    /\ Len(CallsOf(q, "refresh")) = 1
                    /\ q.calls[1].op = "refresh"
                    /\ \A i \in 2..Len(q.calls) :
                          q.calls[i].op \in StravaData =>
                            q.calls[i].token =
                                q.calls[1].rsp.body["access_token"]
              /\ q.chk.expiry > q.chk.at => Len(CallsOf(q, "refresh")) = 0

\* a request whose credential had expired one second before the check has
\* refreshed it and called Strava with another token than the stored one
C3_Witness ==
    \E r \in Slots :
        LET q == req[r]
        IN  /\ q.chk.done /\ q.chk.expiry = q.chk.at - 1
            /\ Len(q.calls) >= 2
            /\ q.calls[1].op = "refresh"
            /\ q.calls[2].op \in StravaData
            /\ q.calls[2].token # q.entry["access_token"]

\* C4: a credential is valid iff the clock is strictly before its expiry: the
\* check of the user credential triggers a refresh iff now >= expiry, and a
\* catalog request is preceded by a token exchange iff there is no stored app
\* credential or now >= its expiry.
C4_StrictExpiry ==
    \A r \in Slots :
        LET q == req[r]
        IN  /\ q.chk.done =>
                ((q.chk.at >= q.chk.expiry) <=>
                    (q.pc = "refresh" \/ Len(CallsOf(q, "refresh")) > 0))
            /\ \A i \in 1..Len(q.calls) :
                  q.calls[i].op = "spotify" =>
                    ((~q.calls[i].had_token
                        \/ q.calls[i].at >= q.calls[i].had_expiry)
                     <=> (i > 1 /\ q.calls[i - 1].op = "spotify_token"))

\* the answer to a refresh is no grant: no answer, an error object, or an
\* answer without one of the three fields
RefreshFailed(c) ==
    \/ c.rsp.exc
    \/ ~({"access_token", "refresh_token", "expires_at"}
            \subseteq DOMAIN c.rsp.body)

\* C5: when the refresh of the user credential fails, the stored record is
\* what it was when the request came in, the request makes no other provider
\* call (no data call, no second refresh) and returns the error flag.
C5_FailedRefresh ==
    \A r \in Slots :
        LET q == req[r]
        IN  \A i \in 1..Len(q.calls) :
              (q.calls[i].op = "refresh" /\ RefreshFailed(q.calls[i])) =>
                /\ Len(q.calls) = 1
                /\ q.writes = 0
                /\ get_session(q.sid) = q.entry
                /\ q.pc = "done"
                /\ q.resp.code = 200
                /\ q.resp.body = [error_status |-> TRUE]

\* a refresh was answered with an access token but without expires_at
C5_Witness ==
    \E r \in Slots :
        LET q == req[r]
        IN  /\ Len(q.calls) = 1 /\ q.calls[1].op = "refresh"
            /\ ~q.calls[1].rsp.exc
            /\ Has(q.calls[1].rsp.body, "access_token")
            /\ ~Has(q.calls[1].rsp.body, "expires_at")
            /\ q.pc = "done"

\* C6: a catalog request whose record holds an app credential with
\* now < expiry_time uses the stored token without an exchange; otherwise an
\* exchange comes first, the request uses its token, and the credential is
\* saved with expiry_time = time of the grant + half the declared lifetime.
C6_AppCredential ==
    \A r \in Slots :
        LET q == req[r]
            grants == CallsOf(q, "spotify_token")
            last == grants[Len(grants)]
        IN  /\ \A i \in 1..Len(q.calls) :
                  LET c == q.calls[i]
                      exchanged == i > 1 /\ q.calls[i - 1].op = "spotify_token"
                  IN  c.op = "spotify" =>
                        /\ IF c.had_token /\ c.at < c.had_expiry
                           THEN ~exchanged /\ c.token = c.had_value
                           ELSE exchanged /\ q.calls[i - 1].at = c.at
                        \* before the first exchange of the request, the
                        \* credential is the one stored when it came in
                        /\ (\A j \in 1..i : q.calls[j].op = "spotify") =>
                              /\ c.had_token
                              /\ Has(q.entry, "spotify_access_token")
                              /\ c.had_value =
                                    q.entry["spotify_access_token"].token
                              /\ c.had_expiry =
                                    q.entry["spotify_access_token"].expiry_time
            /\ (q.pc \in {"spotify", "append"} /\ grants # <<>>) =>
                  LET credential == q.user_session["spotify_access_token"]
                  IN  /\ 2 * (credential.expiry_time - last.at) = last.expires_in
                      /\ credential.token = "sp" \o ToString(last.at)
                      /\ Has(get_session(q.sid), "spotify_access_token")
                      /\ get_session(q.sid)["spotify_access_token"] = credential

\* a credential granted for 3600 s is stored with an expiry 1800 s later, and
\* a catalog request 1900 s after the grant has exchanged a new one
C6_Witness ==
    \E r \in Slots :
        LET q == req[r]
        IN  /\ Len(q.calls) >= 2
            /\ q.calls[1].op = "spotify_token"
            /\ q.calls[1].had_token
            /\ q.calls[1].at = (q.calls[1].had_expiry - 1800) + 1900
            /\ q.calls[1].expires_in = 3600
            /\ q.calls[2].op = "spotify"
            /\ q.user_session["spotify_access_token"].expiry_time
                  = q.calls[1].at + 1800

\* C7: the detail of an activity is fetched from Strava once per session: no
\* request issues an activity-detail call for an id whose detail Strava has
\* already delivered to the session.
C7_DetailFetchedOnce ==
    \A r \in Slots :
        \A i \in 1..Len(req[r].calls) :
            req[r].calls[i].op = "detail" => ~req[r].calls[i].again

\* C8: a request for an activity id whose streams, music or cross-reference
\* field is in the stored record makes no call to the provider of that field
\* and returns the stored value, also when the value is an empty list.
C8_CachedFieldsServed ==
    \A r \in Slots :
        LET q == req[r]
            a == q.activity_id
        IN  /\ (q.kind = "detail" /\ Has(q.entry, StreamsKey(a))) =>
                /\ CallsOf(q, "streams") = <<>>
                /\ (q.pc = "done" /\ Has(q.resp.body, "activity_streams")) =>
                      q.resp.body["activity_streams"] = q.entry[StreamsKey(a)]
            /\ (q.kind = "music" /\ Has(q.entry, MusicKey(a))) =>
                /\ CallsOf(q, "recenttracks") = <<>>
                /\ CallsOf(q, "getInfo") = <<>>
                /\ (q.pc = "done" /\ Has(q.resp.body, "music_data")) =>
                      q.resp.body["music_data"] = q.entry[MusicKey(a)]
            /\ (q.kind = "artist" /\ Has(q.entry, SpotifyKey(a))) =>
                /\ CallsOf(q, "spotify") = <<>>
                /\ CallsOf(q, "spotify_token") = <<>>
                /\ q.pc = "done" => q.resp.body = JList(q.entry[SpotifyKey(a)])

\* the endpoints that operate on an existing session
Protected == {"activities", "profile", "detail", "music", "artist", "link"}

\* C9: a request to a protected endpoint whose session has no user_id makes
\* no provider call and no write to redis, and is answered with 401.
C9_Unauthenticated ==
    \A r \in Slots :
        LET q == req[r]
        IN  (q.kind \in Protected /\ ~Has(q.entry, "user_id")) =>
              /\ q.calls = <<>>
              /\ q.writes = 0
              /\ q.pc = "done" => q.resp.code = 401

\* C10: every record in redis contains a user_id.
C10_StoredRecordsHaveUser ==
    \A session_id \in DOMAIN store : Has(store[session_id], "user_id")

StoredSpotifyData(q) ==
    IF Has(get_session(q.sid), SpotifyKey(q.activity_id))
    THEN get_session(q.sid)[SpotifyKey(q.activity_id)]
    ELSE <<>>

\* the cross-reference of request q has ended at a play it could not process
FailedAtTrack(q, k) ==
    /\ q.kind = "artist" /\ q.pc = "done"
    /\ q.index = k /\ Len(q.spotify_data_list) < k

\* C12: while a cross-reference works on play k of its list, and after it has
\* failed there, redis holds under {id}_spotify_data the results of the plays
\* 1..k-1, in the order of the list, and a request that has failed reports
\* the error flag.
C12_SavedAfterEveryTrack ==
    \A r \in Slots :
        LET q == req[r]
            stored == StoredSpotifyData(q)
        IN  (q.kind = "artist" /\ q.index > 0
                /\ (q.pc \in {"spotify", "append"}
                        \/ FailedAtTrack(q, q.index))) =>
              /\ Len(stored) = q.index - 1
              /\ stored = q.spotify_data_list
              /\ \A i \in 1..Len(stored) :
                    stored[i].current_track.name = q.music_list[i]["name"]
              /\ q.pc = "done" => q.resp = Json([error_status |-> TRUE])

\* the cross-reference of three plays has failed at the second, and redis
\* holds the result of the first
C12_Witness ==
    \E r \in Slots :
        /\ FailedAtTrack(req[r], 2)
        /\ Len(req[r].music_list) = 3
        /\ Len(StoredSpotifyData(req[r])) = 1

\* the records d and e agree on the field k
SameField(d, e, k) ==
    /\ Has(d, k) <=> Has(e, k)
    /\ Has(d, k) => d[k] = e[k]

\* request q is an activity-list request without a date filter
Unfiltered(q) ==
    q.kind = "activities" /\ q.start_date = None /\ q.end_date = None

\* C13: only an activity-list request without dates changes the stored
\* run_activities; a request with a date has queried Strava when it returns
\* activities; and an unfiltered request that finds run_activities in the
\* stored record makes no call to Strava.
C13_RunActivitiesCache ==
    \A r \in Slots :
        LET q == req[r]
        IN  /\ (q.kind # "idle" /\ ~Unfiltered(q)) =>
                  SameField(get_session(q.sid), q.entry, "run_activities")
            /\ (q.kind = "activities" /\ ~Unfiltered(q) /\ q.pc = "done"
                    /\ Has(q.resp.body, "athlete_running_data")) =>
                  /\ CallsOf(q, "activities") # <<>>
                  /\ q.resp.body["athlete_running_data"]
                        = RunsOf(q.all_strava_activities)
            /\ (Unfiltered(q) /\ Has(q.entry, "user_id")
                    /\ Has(q.entry, "run_activities")) =>
                  q.calls = <<>>

\* the endpoints of the pipeline: the activity list, the detail of an
\* activity, its music and the cross-reference
Pipeline == {"activities", "detail", "music", "artist"}

\* the fields of record d that hold answers of providers
CachedFields(d) ==
    {k \in DOMAIN d : k \notin {"athlete_info", "user_id", "access_token",
                                "refresh_token", "access_token_expirytime",
                                "last_fm_username", "spotify_access_token"}}

\* the request has ended in a failure: a crash or the error flag
Failed(q) ==
    \/ q.resp.code = 500
    \/ Has(q.resp.body, "error_status") /\ q.resp.body["error_status"]

\* C14: a request of a logged-in user never ends in an unhandled crash, and
\* after a request that has failed every field that was cached when it came
\* in is still stored with the same value.
C14_GenericFailure ==
    \A r \in Slots :
        LET q == req[r]
        IN  (q.kind \in Pipeline /\ Has(q.entry, "user_id")
                /\ q.pc = "done") =>
              /\ q.resp.code # 500
              /\ Failed(q) =>
                    \A k \in CachedFields(q.entry) :
                        SameField(get_session(q.sid), q.entry, k)

\* the plays of an answer of user.getrecenttracks, as a list
ReturnedTracks(rsp) ==
    IF Has(rsp.body.recenttracks.track, "list")
    THEN rsp.body.recenttracks.track.list
    ELSE <<rsp.body.recenttracks.track.object>>

\* the end of a play in seconds: its timestamp plus the duration Last.fm
\* knows of the track
PlayEnd(track) ==
    IntOf(track["date"].uts)
        + (IntOf(TrackInfo(track["name"]).duration) \div 1000)

Names(tracks) == [i \in 1..Len(tracks) |-> tracks[i]["name"]]

\* C15: the listening history is asked from 300 s before the start of the
\* activity to its end, and the list saved under {id}_music_data holds, in
\* the order of the answer, the plays that are not playing now and do not
\* end before the start of the activity.
C15_WindowFilter ==
    \A r \in Slots :
        LET q == req[r]
            asked == CallsOf(q, "recenttracks")
        IN  (q.kind = "music" /\ asked # <<>>) =>
              /\ Len(asked) = 1
              /\ asked[1].from = q.start_time_unix - 300
              /\ asked[1].to = q.end_time_unix
              /\ (q.pc = "done" /\ Has(q.resp.body, "music_data")) =>
                    LET key == MusicKey(q.activity_id)
                        expected == SelectSeq(ReturnedTracks(asked[1].rsp),
                            LAMBDA track :
                                /\ ~Has(track, "@attr")
                                /\ ~(PlayEnd(track) < q.start_time_unix))
                    IN  /\ Has(get_session(q.sid), key)
                        /\ Names(get_session(q.sid)[key]) = Names(expected)
                        /\ q.resp.body["music_data"] = get_session(q.sid)[key]

\* of the answer TE (start - 400, 60 s), TB (start - 200, 200 s),
\* T1 (start - 200, 300 s), T2 the list saved is TB, T1, T2
C15_Witness ==
    \E r \in Slots :
        LET q == req[r]
        IN  /\ q.kind = "music" /\ q.pc = "done"
            /\ CallsOf(q, "recenttracks") # <<>>
            /\ Has(q.resp.body, "music_data")
            /\ q.start_time_unix = 3600
            /\ Names(ReturnedTracks(CallsOf(q, "recenttracks")[1].rsp))
                  = <<"TE", "TB", "T1", "T2">>
            /\ Names(get_session(q.sid)[MusicKey(q.activity_id)])
                  = <<"TB", "T1", "T2">>

\* the candidates Spotify recommends for a play that are not by its artist
OtherArtists(name) ==
    SelectSeq(CatalogRecommendations(name), LAMBDA candidate :
        candidate["album"].artists[1].name # CatalogArtist(name).name)

Min(a, b) == IF a < b THEN a ELSE b

\* C16: in the record of every processed play, recommended_tracks holds no
\* track by the artist of the play, and is the list of the other candidates
\* in the order of Spotify's answer, cut after the first 10.
C16_Recommendations ==
    \A r \in Slots :
        LET q == req[r]
        IN  (q.kind = "artist" /\ q.index > 0) =>
              \A i \in 1..Len(q.spotify_data_list) :
                  LET name == q.music_list[i]["name"]
                      list == q.spotify_data_list[i].recommended_tracks
                      others == OtherArtists(name)
                  IN  /\ Len(list) = Min(10, Len(others))
                      /\ \A j \in 1..Len(list) :
                            /\ list[j].artist # CatalogArtist(name).name
                            /\ list[j].track_name = others[j]["name"]
                            /\ list[j].artist = others[j]["album"].artists[1].name

\* of 15 candidates, 3 by the artist of the play, 10 are in the record
C16_Witness ==
    \E r \in Slots :
        LET q == req[r]
        IN  /\ q.kind = "artist" /\ q.index > 0
            /\ \E i \in 1..Len(q.spotify_data_list) :
                  /\ Len(CatalogRecommendations(q.music_list[i]["name"])) = 15
                  /\ Len(OtherArtists(q.music_list[i]["name"])) = 12
                  /\ Len(q.spotify_data_list[i].recommended_tracks) = 10

\* C17: when a request of a logged-in user has been handled, the record the
\* handler holds in memory, with every field it has set, is the record
\* stored in redis under the session id.
C17_WriteBack ==
    \A r \in Slots :
        LET q == req[r]
        IN  (q.pc = "done" /\ q.sid # None /\ Has(q.user_session, "user_id")) =>
              get_session(q.sid) = q.user_session

\* Last.fm knows no duration of the track of this play
NoDuration(track) == ~Has(TrackInfo(track["name"]), "duration")

\* the duration of a play in seconds, 0 when Last.fm knows none
DurationOrZero(track) ==
    IF NoDuration(track) THEN 0
    ELSE IntOf(TrackInfo(track["name"]).duration) \div 1000

\* C18: when the metadata of a returned play holds no duration, the step does
\* not fail: once every metadata request has been answered, the response
\* carries music_data, and the list saved under {id}_music_data is the one
\* the filter yields with duration 0 for that play.
C18_AbsentDurationIsZero ==
    \A r \in Slots :
        LET q == req[r]
            asked == CallsOf(q, "recenttracks")
            key == MusicKey(q.activity_id)
        IN  (/\ q.kind = "music" /\ q.pc = "done" /\ asked # <<>>
             /\ Has(asked[1].rsp.body, "recenttracks")
             /\ LET played == Played(asked[1].rsp.body.recenttracks.track)
                IN  /\ \E i \in 1..Len(played) : NoDuration(played[i])
                    /\ Len(CallsOf(q, "getInfo")) = Len(played)
                    /\ q.calls[Len(q.calls)].op = "getInfo"
                    /\ q.calls[Len(q.calls)].ok) =>
              LET played == Played(asked[1].rsp.body.recenttracks.track)
                  expected == SelectSeq(played, LAMBDA track :
                      ~(IntOf(track["date"].uts) + DurationOrZero(track)
                            < q.start_time_unix))
              IN  /\ Has(q.resp.body, "music_data")
                  /\ Has(get_session(q.sid), key)
                  /\ Names(get_session(q.sid)[key]) = Names(expected)

\* the picture of a catalog object, None when it has none
ArtworkOf(images) == IF images = <<>> THEN None ELSE images[1].url

\* C19: once the five catalog requests of a play are answered, the handler
\* assembles the record of the play, appends it and saves the list, with a
\* null image wherever the catalog holds no picture (of the artist, of the
\* album of a top track or of a recommended track), and does not fail.
C19_NullImage ==
    [][\A r \in Slots :
        LET q == req[r]
            q2 == req'[r]
            key == SpotifyKey(q.activity_id)
        IN  (q.pc = "append" /\ q2.pc # "append") =>
              /\ ~Failed(q2)
              /\ Len(q2.spotify_data_list) = Len(q.spotify_data_list) + 1
              /\ Has(store'[q.sid], key)
              /\ store'[q.sid][key] = q2.spotify_data_list
              /\ LET record == q2.spotify_data_list[Len(q2.spotify_data_list)]
                     kept == SelectSeq(q.top_tracks_data, LAMBDA top_track :
                                top_track["name"] # q.music_data["name"])
                 IN  /\ record.current_track.artist.image
                            = ArtworkOf(q.artist_data["images"])
                     /\ \A i \in 1..Len(kept) :
                            record.current_track.artist.top_tracks[i].image
                                = ArtworkOf(kept[i]["album"].images)
                     /\ \A j \in 1..Len(record.recommended_tracks) :
                            record.recommended_tracks[j].image
                                = ArtworkOf(OtherArtists(
                                    q.music_list[q.index]["name"])[j]["album"].images)
       ]_vars

\* the user credential of a stored record
Triple(d) ==
    <<d["access_token"], d["refresh_token"], d["access_token_expirytime"]>>

\* C20: the stored user credential of a session changes only in the step in
\* which a request for that session saves the grant of a refresh.
C20_TripleFrame ==
    [][\A sid \in (DOMAIN store) \cap (DOMAIN store') :
        (/\ Has(store[sid], "access_token")
         /\ Has(store'[sid], "access_token")
         /\ Triple(store'[sid]) # Triple(store[sid])) =>
            \E r \in Slots :
                /\ req[r].sid = sid
                /\ req[r].pc = "refresh" /\ req'[r].pc = "reload"
                /\ Triple(store'[sid]) = Triple(req'[r].cs)
       ]_vars

\* request q has asked Strava for the detail of activity a
AskedDetail(q, a) == q.activity_id = a /\ CallsOf(q, "detail") # <<>>

\* C21: a write to redis replaces the record of the session by the whole
\* record the writing request holds in memory, whatever another request has
\* stored since that request loaded it: the last writer wins.
C21_LastWriterWins ==
    [][\A sid \in (DOMAIN store) \cap (DOMAIN store') :
        store'[sid] # store[sid] =>
            \E r \in Slots :
                /\ req[r].sid = sid /\ req'[r] # req[r]
                /\ \/ store'[sid] = req'[r].user_session
                   \/ store'[sid] = req'[r].cs
       ]_vars

\* a request for the detail of an activity and a request for its music have
\* both missed the cache and asked Strava for the detail; the first has saved
\* the detail and the streams, the second has saved the music after it, and
\* the stored record holds the music but neither detail nor streams
C21_Witness ==
    LET d == req[1]
        m == req[2]
    IN  /\ d.kind = "detail" /\ d.pc = "done" /\ ~Failed(d)
        /\ m.kind = "music" /\ m.pc = "done" /\ ~Failed(m)
        /\ d.sid = m.sid
        /\ AskedDetail(d, "a1") /\ AskedDetail(m, "a1")
        /\ Has(d.user_session, DataKey("a1"))
        /\ Has(d.user_session, StreamsKey("a1"))
        /\ get_session(m.sid) = m.user_session
        /\ Has(get_session(m.sid), MusicKey("a1"))
        /\ ~Has(get_session(m.sid), DataKey("a1"))
        /\ ~Has(get_session(m.sid), StreamsKey("a1"))

\* C22: the login exchange stores user_id and athlete_info as Strava has
\* delivered them, and every later write to the record of the session leaves
\* both as they are, as long as the record exists.
C22_IdentityFrame ==
    [][\A sid \in DOMAIN store' :
        IF sid \in DOMAIN store
        THEN Has(store[sid], "user_id") =>
                /\ SameField(store'[sid], store[sid], "user_id")
                /\ SameField(store'[sid], store[sid], "athlete_info")
        ELSE Has(store'[sid], "user_id") =>
                \E r \in Slots :
                    /\ req'[r].kind = "callback" /\ req'[r].pc = "done"
                    /\ req'[r].resp.body["session_id"] = sid
                    /\ store'[sid]["athlete_info"]
                          = req'[r].resp.body["user_data"]
                    /\ store'[sid]["user_id"]
                          = req'[r].resp.body["user_data"].id
       ]_vars

\* the record of a session has been written after login by a refresh, by the
\* activity list, by the link to Last.fm and by the cross-reference, and it
\* holds the identity of the login
C22_Witness ==
    \E sid \in DOMAIN store :
        /\ Has(store[sid], "user_id") /\ store[sid]["user_id"] = Athlete.id
        /\ store[sid]["athlete_info"] = Athlete
        /\ store[sid]["access_token_expirytime"] = 3600
        /\ store[sid]["access_token"] = "at3600" /\ now > 0
        /\ Has(store[sid], "run_activities")
        /\ Has(store[sid], "last_fm_username")
        /\ Has(store[sid], "spotify_access_token")
        /\ \E r \in Slots : req[r].sid = sid /\ CallsOf(req[r], "refresh") # <<>>

\* request q was answered from the cached cross-reference of its activity
ServedFromCache(q) ==
    /\ q.kind = "artist" /\ q.pc = "done" /\ q.calls = <<>>
    /\ TruthyList(q.entry, SpotifyKey(q.activity_id))
    /\ Has(q.resp.body, "list")

\* C23: the list the cross-reference serves from the cache holds one record
\* per play of {id}_music_data, in the order of the plays.
C23_CachedListComplete ==
    \A r \in Slots :
        LET q == req[r]
            served == q.resp.body["list"]
            plays == q.entry[MusicKey(q.activity_id)]
        IN  ServedFromCache(q) =>
              /\ Len(served) = Len(plays)
              /\ \A i \in 1..Len(served) :
                    served[i].current_track.name = plays[i]["name"]

\* C24: a request that has loaded the record of a logged-in session does not
\* store a record under the id of the session once a logout has deleted it.
C24_NoWriteAfterLogout ==
    [][\A r \in Slots :
        (/\ Has(req[r].entry, "user_id")
         /\ req[r].sid \notin DOMAIN store
         /\ req'[r] # req[r]) =>
            req[r].sid \notin DOMAIN store'
       ]_vars

\* the answer to the code exchange is one the login can build a session from
GrantComplete(rsp) ==
    /\ ~rsp.exc
    /\ {"athlete", "access_token", "refresh_token", "expires_at"}
          \subseteq DOMAIN rsp.body

\* C25: a login whose code exchange fails leaves the store as it is and
\* answers error = true without a session_id; a login that carries the id of
\* an authenticated session asks for no exchange and leaves the store as it is.
C25_FailedLoginStoresNothing ==
    [][\A r \in Slots :
        LET q == req'[r]
        IN  /\ (/\ req[r].pc = "exchange" /\ q.pc = "done"
                /\ ~GrantComplete(q.calls[Len(q.calls)].rsp)) =>
                    /\ store' = store
                    /\ q.resp.body["error"] = TRUE
                    /\ ~Has(q.resp.body, "session_id")
            /\ (/\ req[r].pc = "idle" /\ q.kind = "callback"
                /\ Truthy(get_session(q.sid), "user_id")) =>
                    /\ store' = store
                    /\ q.pc = "done"
                    /\ q.calls = <<>>
                    /\ q.resp.body["error"] = FALSE
       ]_vars

\* a login answered by a grant that lacks expires_at has returned an error
\* and the store is empty
C25_Witness ==
    \E r \in Slots :
        LET q == req[r]
        IN  /\ q.kind = "callback" /\ q.pc = "done"
            /\ q.calls # <<>>
            /\ q.calls[1].rsp.body
                  = Drop(Put(GrantBody(3600), "athlete", Athlete), "expires_at")
            /\ q.resp.body["error"] = TRUE
            /\ store = << >>

\* a login that carried the id of an authenticated session has been answered
\* with the athlete of the session
C25_WitnessAuthenticated ==
    \E r \in Slots :
        LET q == req[r]
        IN  /\ q.kind = "callback" /\ q.pc = "done" /\ q.calls = <<>>
            /\ q.sid \in DOMAIN store
            /\ q.resp.body["user_data"] = store[q.sid]["athlete_info"]

\* C26: the field {id}_data of a stored session never holds an error object of
\* the fitness provider.
C26_NoErrorDetailStored ==
    \A sid \in DOMAIN store, a \in ActivityIds :
        Has(store[sid], DataKey(a)) => ~Has(store[sid][DataKey(a)], "errors")
====
